---- MODULE Spec2Model ----
(***************************************************************************)
(* Borealis: the Repository reconciliation layer (upsert / archive-missing *)
(* over users, libraries and items), its playback and task-log tables, the *)
(* StatsAggregator refresh operations and the SyncScheduler loop.          *)
(*                                                                         *)
(* Tables are sequences of rows in insertion order; the local primary key  *)
(* of a row is the autoincrement value it got when it was inserted.  An    *)
(* input dictionary is a function whose DOMAIN is the set of keys present. *)
(***************************************************************************)
EXTENDS Integers, Sequences, FiniteSets, TLC

VARIABLES
    users,      \* table users
    libraries,  \* table libraries
    items,      \* table items
    clock,      \* int(time.time())
    last,       \* the most recent repository call: name, arguments, outcome
    pass,       \* the caller's item sync pass: upstream catalog and progress
    playback,   \* table playback_activity
    task_log,   \* table task_logs
    txn,        \* the open or last unit of work of each concurrent caller
    running,    \* SyncScheduler._running
    thread,     \* SyncScheduler._thread: the newest thread, 0 for None
    pc,         \* where each background thread is in _run_loop
    left,       \* each thread's remaining iterations of the sleep loop
    caller,     \* the thread that calls start() and stop(): "idle", or
                \* "joining" while stop() waits in join(timeout=5)
    cycle       \* each thread's current loop cycle: what the pending check
                \* gave and which sync calls the cycle has made

repo == <<users, libraries, items, clock, last, pass, playback, task_log,
          txn>>
sched == <<running, thread, pc, left, caller, cycle>>
vars == <<users, libraries, items, clock, last, pass, playback, task_log,
          txn, running, thread, pc, left, caller, cycle>>

\* ---------------------------------------------------------------- bounds
NumIds == 2      \* external ids per entity kind
MaxBatch == 2    \* longest input list of one call
MaxClock == 2    \* the clock runs from 1 to MaxClock
NumLibs == 2     \* local library ids 1..NumLibs
MaxItemBatch == 1  \* longest input list of one free upsert_items call
MaxThreads == 2  \* threads one scheduler creates in a run
interval_seconds == 2  \* the scheduler under test is built with this interval
MaxTasks == 2    \* task log rows created in a run
MaxEvents == 3   \* playback_activity rows inserted in a run

\* ---------------------------------------------------------------- values
None == "None"

UserIds == {"U" \o ToString(i) : i \in 1..NumIds}
Names == {"Alice"}

\* Python truthiness of data.get("jellyfin_id"): None and "" are falsy.
Falsy(x) == x = None \/ x = ""

\* dict.get(key) and dict.get(key, default)
Get(data, key) == IF key \in DOMAIN data THEN data[key] ELSE None
GetOr(data, key, default) == IF key \in DOMAIN data THEN data[key] ELSE default

\* The input dictionaries of upsert_users: the optional keys in every
\* combination for a row that has its external id, and one row that lacks it.
UserDict(K, i, n, a) ==
    [k \in K |-> CASE k = "jellyfin_id" -> i
                   [] k = "name" -> n
                   [] k = "is_admin" -> a]
UserDicts ==
    {UserDict(K \cup {"jellyfin_id"}, i, n, a) :
         K \in SUBSET {"name", "is_admin"}, i \in UserIds, n \in Names,
         a \in {TRUE}}
    \cup {UserDict({"name", "is_admin"}, "", n, TRUE) : n \in Names}

SeqsUpTo(S, n) == UNION {[1..k -> S] : k \in 0..n}
UserBatches == SeqsUpTo(UserDicts, MaxBatch)
\* Lists of one dictionary that carries only the external id.
BareUserBatches == {<<UserDict({"jellyfin_id"}, i, "", TRUE)>> : i \in UserIds}

\* The external ids a batch names, and those of them an upsert does not skip.
BatchIds(batch) ==
    {batch[k]["jellyfin_id"] : k \in {j \in 1..Len(batch) :
                                     "jellyfin_id" \in DOMAIN batch[j]}}
ValidIds(ids) == {i \in ids : ~Falsy(i)}

\* ---------------------------------------------------------------- session
\* query(...).filter_by(jellyfin_id = jf_id).first(): 0 when there is no row.
First(tbl, jf_id) ==
    LET hits == {k \in 1..Len(tbl) : tbl[k].jellyfin_id = jf_id}
    IN  IF hits = {} THEN 0 ELSE CHOOSE k \in hits : \A j \in hits : k <= j

\* _session(): commit the unit of work, or roll it back when the body raised.
SessionKeepsPartial(before, work, raised) == work
Session(before, work, raised) == IF raised THEN before ELSE work

\* What `last` keeps of a call: its name, the external ids its batch names,
\* its active-id set, its library_id, the value returned, whether it raised,
\* and in arg the other arguments of a call that has any.
NoCall == [op |-> "none", ids |-> {}, active |-> {}, library_id |-> 0,
           ret |-> 0, raised |-> FALSE, arg |-> <<>>]

\* ---------------------------------------------------------------- users
\* User(...): a new row; total_plays takes the column default.
User(id, jf_id, name, is_admin, now) ==
    [id |-> id, jellyfin_id |-> jf_id, name |-> name, is_admin |-> is_admin,
     total_plays |-> 0, archived |-> FALSE, created_at |-> now,
     updated_at |-> now]

\* One iteration of the loop of upsert_users.
UpsertUserAlwaysInserts(tbl, data, now) ==
    LET jf_id == Get(data, "jellyfin_id")
    IN  IF Falsy(jf_id) THEN tbl
        ELSE Append(tbl, User(Len(tbl) + 1, jf_id, GetOr(data, "name", "Unknown"),
                              GetOr(data, "is_admin", FALSE), now))
UpsertUserKeepsArchived(tbl, data, now) ==
    LET jf_id == Get(data, "jellyfin_id")
        k == First(tbl, jf_id)
    IN  IF Falsy(jf_id) THEN tbl
        ELSE IF k # 0
        THEN [tbl EXCEPT ![k] =
                 [@ EXCEPT !.name = GetOr(data, "name", @),
                           !.is_admin = GetOr(data, "is_admin", @),
                           !.updated_at = now]]
        ELSE Append(tbl, User(Len(tbl) + 1, jf_id, GetOr(data, "name", "Unknown"),
                              GetOr(data, "is_admin", FALSE), now))
UpsertUserResetsAbsent(tbl, data, now) ==
    LET jf_id == Get(data, "jellyfin_id")
        k == First(tbl, jf_id)
    IN  IF Falsy(jf_id) THEN tbl
        ELSE IF k # 0
        THEN [tbl EXCEPT ![k] =
                 [@ EXCEPT !.name = GetOr(data, "name", "Unknown"),
                           !.is_admin = GetOr(data, "is_admin", FALSE),
                           !.archived = FALSE,
                           !.updated_at = now]]
        ELSE Append(tbl, User(Len(tbl) + 1, jf_id, GetOr(data, "name", "Unknown"),
                              GetOr(data, "is_admin", FALSE), now))
UpsertUserResetsPlays(tbl, data, now) ==
    LET jf_id == Get(data, "jellyfin_id")
        k == First(tbl, jf_id)
    IN  IF Falsy(jf_id) THEN tbl
        ELSE IF k # 0
        THEN [tbl EXCEPT ![k] =
                 [@ EXCEPT !.name = GetOr(data, "name", @),
                           !.is_admin = GetOr(data, "is_admin", @),
                           !.total_plays = 0,
                           !.archived = FALSE,
                           !.updated_at = now]]
        ELSE Append(tbl, User(Len(tbl) + 1, jf_id, GetOr(data, "name", "Unknown"),
                              GetOr(data, "is_admin", FALSE), now))
UpsertUserKeepsUpdatedAt(tbl, data, now) ==
    LET jf_id == Get(data, "jellyfin_id")
        k == First(tbl, jf_id)
    IN  IF Falsy(jf_id) THEN tbl
        ELSE IF k # 0
        THEN [tbl EXCEPT ![k] =
                 [@ EXCEPT !.name = GetOr(data, "name", @),
                           !.is_admin = GetOr(data, "is_admin", @),
                           !.archived = FALSE]]
        ELSE Append(tbl, User(Len(tbl) + 1, jf_id, GetOr(data, "name", "Unknown"),
                              GetOr(data, "is_admin", FALSE), now))
UpsertUser(tbl, data, now) ==
    LET jf_id == Get(data, "jellyfin_id")
        k == First(tbl, jf_id)
    IN  IF Falsy(jf_id) THEN tbl
        ELSE IF k # 0
        THEN [tbl EXCEPT ![k] =
                 [@ EXCEPT !.name = GetOr(data, "name", @),
                           !.is_admin = GetOr(data, "is_admin", @),
                           !.archived = FALSE,
                           !.updated_at = now]]
        ELSE Append(tbl, User(Len(tbl) + 1, jf_id, GetOr(data, "name", "Unknown"),
                              GetOr(data, "is_admin", FALSE), now))

\* The table of the session after the first n iterations of the loop.
RECURSIVE UpsertUsersLoop(_, _, _, _)
UpsertUsersLoop(tbl, user_dicts, n, now) ==
    IF n = 0 THEN tbl
    ELSE UpsertUser(UpsertUsersLoop(tbl, user_dicts, n - 1, now),
                    user_dicts[n], now)

\* count: the iterations among the first n that did not `continue`.
UpsertUsersCount(user_dicts, n) ==
    Cardinality({k \in 1..n : ~Falsy(Get(user_dicts[k], "jellyfin_id"))})

\* upsert_users(user_dicts) on table tbl at time now: the table afterwards,
\* the value returned and whether the call raised.  failAt = 0: nothing
\* raises; failAt = k > 0: k - 1 iterations complete and then an exception is
\* raised (in iteration k, or by the commit when k = Len(user_dicts) + 1).
upsert_users(tbl, user_dicts, failAt, now) ==
    IF user_dicts = <<>>
    THEN [rows |-> tbl, ret |-> 0, raised |-> FALSE]
    ELSE LET n == IF failAt = 0 THEN Len(user_dicts) ELSE failAt - 1
             work == UpsertUsersLoop(tbl, user_dicts, n, now)
         IN  [rows |-> Session(tbl, work, failAt # 0),
              ret |-> IF failAt = 0 THEN UpsertUsersCount(user_dicts, n) ELSE 0,
              raised |-> failAt # 0]

FailPoints(batch) == IF batch = <<>> THEN {0} ELSE 0..(Len(batch) + 1)

\* The rows the bulk UPDATE of archive_missing_users matches.
MissingUsersIgnoresSet(tbl, active_jellyfin_ids) ==
    {k \in 1..Len(tbl) : ~tbl[k].archived}
MissingUsers(tbl, active_jellyfin_ids) ==
    {k \in 1..Len(tbl) : /\ tbl[k].jellyfin_id \notin active_jellyfin_ids
                         /\ ~tbl[k].archived}

\* archive_missing_users(active_jellyfin_ids) on table tbl.
ArchiveUsersOnEmptyToo(tbl, active_jellyfin_ids) ==
    LET hit == MissingUsers(tbl, active_jellyfin_ids)
    IN  [rows |-> [k \in 1..Len(tbl) |->
                      IF k \in hit THEN [tbl[k] EXCEPT !.archived = TRUE]
                      ELSE tbl[k]],
         ret |-> Cardinality(hit), raised |-> FALSE]
ArchiveUsersDeletes(tbl, active_jellyfin_ids) ==
    LET hit == MissingUsers(tbl, active_jellyfin_ids)
    IN  [rows |-> IF active_jellyfin_ids = {} THEN tbl
                  ELSE SelectSeq(tbl, LAMBDA row :
                           row.jellyfin_id \in active_jellyfin_ids
                           \/ row.archived),
         ret |-> IF active_jellyfin_ids = {} THEN 0 ELSE Cardinality(hit),
         raised |-> FALSE]
archive_missing_users(tbl, active_jellyfin_ids) ==
    IF active_jellyfin_ids = {}
    THEN [rows |-> tbl, ret |-> 0, raised |-> FALSE]
    ELSE LET hit == MissingUsers(tbl, active_jellyfin_ids)
         IN  [rows |-> [k \in 1..Len(tbl) |->
                           IF k \in hit THEN [tbl[k] EXCEPT !.archived = TRUE]
                           ELSE tbl[k]],
              ret |-> Cardinality(hit), raised |-> FALSE]

\* ---------------------------------------------------------------- libraries
LibraryExtIds == {"L" \o ToString(i) : i \in 1..NumIds}
LibraryExtras == {"name", "type", "image_url"}

\* The input dictionaries of upsert_libraries: rows with the external id, with
\* or without the optional keys, and one row that lacks the external id.
LibraryDict(K, i) ==
    [k \in K |-> CASE k = "jellyfin_id" -> i
                   [] k = "name" -> "Movies"
                   [] k = "type" -> "movies"
                   [] k = "image_url" -> "/img"]
LibraryDicts ==
    {LibraryDict(K \cup {"jellyfin_id"}, i) :
        K \in {{}, LibraryExtras}, i \in LibraryExtIds}
    \cup {LibraryDict(LibraryExtras, "")}
LibraryBatches == SeqsUpTo(LibraryDicts, MaxBatch)
\* Lists of one dictionary that carries only the external id.
BareLibraryBatches == {<<LibraryDict({"jellyfin_id"}, i)>> : i \in LibraryExtIds}

\* A new Library row; id is the next autoincrement value.
Library(id, jf_id, name, type, image_url, now) ==
    [id |-> id, jellyfin_id |-> jf_id, name |-> name, type |-> type,
     image_url |-> image_url, tracked |-> FALSE, archived |-> FALSE,
     created_at |-> now, updated_at |-> now, total_plays |-> 0]

\* One iteration of the loop of upsert_libraries.
UpsertLibraryResetsTracked(tbl, data, now) ==
    LET jf_id == Get(data, "jellyfin_id")
        k == First(tbl, jf_id)
    IN  IF Falsy(jf_id) THEN tbl
        ELSE IF k # 0
        THEN [tbl EXCEPT ![k] =
                 [@ EXCEPT !.name = GetOr(data, "name", @),
                           !.type = GetOr(data, "type", @),
                           !.image_url = GetOr(data, "image_url", @),
                           !.tracked = FALSE,
                           !.archived = FALSE,
                           !.updated_at = now]]
        ELSE Append(tbl, Library(Len(tbl) + 1, jf_id,
                                 GetOr(data, "name", "Unknown"),
                                 Get(data, "type"), Get(data, "image_url"),
                                 now))
UpsertLibrary(tbl, data, now) ==
    LET jf_id == Get(data, "jellyfin_id")
        k == First(tbl, jf_id)
    IN  IF Falsy(jf_id) THEN tbl
        ELSE IF k # 0
        THEN [tbl EXCEPT ![k] =
                 [@ EXCEPT !.name = GetOr(data, "name", @),
                           !.type = GetOr(data, "type", @),
                           !.image_url = GetOr(data, "image_url", @),
                           !.archived = FALSE,
                           !.updated_at = now]]
        ELSE Append(tbl, Library(Len(tbl) + 1, jf_id,
                                 GetOr(data, "name", "Unknown"),
                                 Get(data, "type"), Get(data, "image_url"),
                                 now))

RECURSIVE UpsertLibrariesLoop(_, _, _, _)
UpsertLibrariesLoop(tbl, library_dicts, n, now) ==
    IF n = 0 THEN tbl
    ELSE UpsertLibrary(UpsertLibrariesLoop(tbl, library_dicts, n - 1, now),
                       library_dicts[n], now)

UpsertLibrariesCount(library_dicts, n) ==
    Cardinality({k \in 1..n : ~Falsy(Get(library_dicts[k], "jellyfin_id"))})

\* upsert_libraries(library_dicts) on table tbl; failAt as in upsert_users.
upsert_libraries(tbl, library_dicts, failAt, now) ==
    IF library_dicts = <<>>
    THEN [rows |-> tbl, ret |-> 0, raised |-> FALSE]
    ELSE LET n == IF failAt = 0 THEN Len(library_dicts) ELSE failAt - 1
             work == UpsertLibrariesLoop(tbl, library_dicts, n, now)
         IN  [rows |-> Session(tbl, work, failAt # 0),
              ret |-> IF failAt = 0 THEN UpsertLibrariesCount(library_dicts, n)
                      ELSE 0,
              raised |-> failAt # 0]

\* The rows the bulk UPDATE of archive_missing_libraries matches.
MissingLibraries(tbl, active_jellyfin_ids) ==
    {k \in 1..Len(tbl) : /\ tbl[k].jellyfin_id \notin active_jellyfin_ids
                         /\ ~tbl[k].archived}

\* archive_missing_libraries(active_jellyfin_ids) on table tbl.
archive_missing_libraries(tbl, active_jellyfin_ids) ==
    IF active_jellyfin_ids = {}
    THEN [rows |-> tbl, ret |-> 0, raised |-> FALSE]
    ELSE LET hit == MissingLibraries(tbl, active_jellyfin_ids)
         IN  [rows |-> [k \in 1..Len(tbl) |->
                           IF k \in hit THEN [tbl[k] EXCEPT !.archived = TRUE]
                           ELSE tbl[k]],
              ret |-> Cardinality(hit), raised |-> FALSE]

\* The values a caller passes as `tracked`, and Python's bool() of them.
TrackedInputs == {"True", "False", "1", "0"}
Bool(x) == x \in {"True", "1"}

\* set_library_tracked(jellyfin_id, tracked) on table tbl.  The result is the
\* Optional of the code as a set: {} for None, {row} for the row's dictionary.
SetLibraryTrackedInsertsUnknown(tbl, jellyfin_id, tracked) ==
    LET k == First(tbl, jellyfin_id)
    IN  IF k = 0
        THEN [rows |-> Append(tbl, [Library(Len(tbl) + 1, jellyfin_id,
                                            "Unknown", None, None, 0)
                                    EXCEPT !.tracked = Bool(tracked)]),
              ret |-> {}, raised |-> FALSE]
        ELSE LET rows == [tbl EXCEPT ![k].tracked = Bool(tracked)]
             IN  [rows |-> rows, ret |-> {rows[k]}, raised |-> FALSE]
set_library_tracked(tbl, jellyfin_id, tracked) ==
    LET k == First(tbl, jellyfin_id)
    IN  IF k = 0
        THEN [rows |-> tbl, ret |-> {}, raised |-> FALSE]
        ELSE LET rows == [tbl EXCEPT ![k].tracked = Bool(tracked)]
             IN  [rows |-> rows, ret |-> {rows[k]}, raised |-> FALSE]

\* ---------------------------------------------------------------- task log
\* The arguments of create_task_log.
TaskNames == {"activity_log_sync"}
TaskTypes == {"SYNC"}
ExecutionTypes == {"SCHEDULED"}
\* The result a caller closes a task with.
TaskResults == {"SUCCESS", "FAILED"}
\* The ids a caller passes to complete_task_log: those given out, and one
\* that never is.
TaskIds == 1..(MaxTasks + 1)

\* log_data is Optional: {} for None, {d} for a dictionary d, which is the
\* empty dictionary or one with a count in it.
EmptyDict == [k \in {} |-> 0]
LogDatas == {{}, {EmptyDict}, {[k \in {"events"} |-> 2]}}

\* Python truthiness of an Optional dictionary: None and {} are falsy.
TruthyAlways(log_data) == log_data # {}
Truthy(log_data) == \E d \in log_data : DOMAIN d # {}

\* json.dumps of a dictionary of the kind above.
JsonDumps(d) ==
    IF DOMAIN d = {} THEN "{}"
    ELSE "{\"events\": " \o ToString(d["events"]) \o "}"

\* TaskLog(...): a new row; finished_at and log_json are left to the column
\* defaults: finished_at is the empty set while unset, log_json is None.
TaskLog(id, name, task_type, execution_type, now) ==
    [id |-> id, name |-> name, type |-> task_type,
     execution_type |-> execution_type, started_at |-> now,
     finished_at |-> {}, duration_ms |-> 0, result |-> "RUNNING",
     log_json |-> None]

\* create_task_log(name, task_type, execution_type) on table tbl.
create_task_log(tbl, name, task_type, execution_type, now) ==
    [rows |-> Append(tbl, TaskLog(Len(tbl) + 1, name, task_type,
                                  execution_type, now)),
     ret |-> Len(tbl) + 1, raised |-> FALSE]

\* The row `query(TaskLog).filter_by(id=task_id).first()` finds, 0 for None.
FirstTask(tbl, task_id) ==
    LET hits == {k \in 1..Len(tbl) : tbl[k].id = task_id}
    IN  IF hits = {} THEN 0 ELSE CHOOSE k \in hits : \A j \in hits : k <= j

\* complete_task_log(task_id, result, log_data) on table tbl.
complete_task_log(tbl, task_id, result, log_data, now) ==
    LET k == FirstTask(tbl, task_id)
    IN  IF k = 0 THEN [rows |-> tbl, ret |-> None, raised |-> FALSE]
        ELSE [rows |-> [tbl EXCEPT
                 ![k].finished_at = {now},
                 ![k].duration_ms = (now - tbl[k].started_at) * 1000,
                 ![k].result = result,
                 ![k].log_json = IF Truthy(log_data)
                                 THEN JsonDumps(CHOOSE d \in log_data : TRUE)
                                 ELSE @],
              ret |-> None, raised |-> FALSE]

\* ---------------------------------------------------------------- items
ItemIds == {"I" \o ToString(i) : i \in 1..NumIds}
LibraryIds == 1..NumLibs
ItemExtras == {"parent_id", "name", "type"}
\* Active-id sets may also name an item that was never upserted.
ActiveItemIds == ItemIds \cup {"I0"}

\* The input dictionaries of upsert_items: rows with both required keys, with
\* or without the optional keys; one row that lacks the external id and one
\* that lacks the library reference.
ItemDict(K, i, l) ==
    [k \in K |-> CASE k = "jellyfin_id" -> i
                   [] k = "library_id" -> l
                   [] k = "parent_id" -> "Series"
                   [] k = "name" -> "Pilot"
                   [] k = "type" -> "Episode"]
ItemDicts ==
    {ItemDict({"jellyfin_id", "library_id"} \cup X, i, l) :
         X \in {{}, ItemExtras}, i \in ItemIds, l \in LibraryIds}
    \cup {ItemDict({"library_id"} \cup ItemExtras, "", 1)}
    \cup {ItemDict({"jellyfin_id"} \cup ItemExtras, "I1", 0)}
ItemBatches == SeqsUpTo(ItemDicts, MaxItemBatch)
\* Lists of one dictionary that carries only the two required keys.
BareItemBatches ==
    {<<ItemDict({"jellyfin_id", "library_id"}, i, l)>> :
        i \in ItemIds, l \in LibraryIds}

\* Item(...): a new row; play_count takes the column default.
Item(id, jf_id, lib_id, parent_id, name, type, now) ==
    [id |-> id, jellyfin_id |-> jf_id, library_id |-> lib_id,
     parent_id |-> parent_id, name |-> name, type |-> type, play_count |-> 0,
     archived |-> FALSE, created_at |-> now, updated_at |-> now]

\* `not jf_id or lib_id is None`
SkipsItem(data) ==
    Falsy(Get(data, "jellyfin_id")) \/ "library_id" \notin DOMAIN data

\* One iteration of the loop of upsert_items.
UpsertItemMovesLibrary(tbl, data, now) ==
    LET jf_id == Get(data, "jellyfin_id")
        k == First(tbl, jf_id)
    IN  IF SkipsItem(data) THEN tbl
        ELSE IF k # 0
        THEN [tbl EXCEPT ![k] =
                 [@ EXCEPT !.library_id = data["library_id"],
                           !.name = GetOr(data, "name", @),
                           !.type = GetOr(data, "type", @),
                           !.parent_id = GetOr(data, "parent_id", @),
                           !.archived = FALSE,
                           !.updated_at = now]]
        ELSE Append(tbl, Item(Len(tbl) + 1, jf_id, data["library_id"],
                              Get(data, "parent_id"),
                              GetOr(data, "name", "Unknown"),
                              Get(data, "type"), now))
UpsertItem(tbl, data, now) ==
    LET jf_id == Get(data, "jellyfin_id")
        k == First(tbl, jf_id)
    IN  IF SkipsItem(data) THEN tbl
        ELSE IF k # 0
        THEN [tbl EXCEPT ![k] =
                 [@ EXCEPT !.name = GetOr(data, "name", @),
                           !.type = GetOr(data, "type", @),
                           !.parent_id = GetOr(data, "parent_id", @),
                           !.archived = FALSE,
                           !.updated_at = now]]
        ELSE Append(tbl, Item(Len(tbl) + 1, jf_id, data["library_id"],
                              Get(data, "parent_id"),
                              GetOr(data, "name", "Unknown"),
                              Get(data, "type"), now))

RECURSIVE UpsertItemsLoop(_, _, _, _)
UpsertItemsLoop(tbl, item_dicts, n, now) ==
    IF n = 0 THEN tbl
    ELSE UpsertItem(UpsertItemsLoop(tbl, item_dicts, n - 1, now),
                    item_dicts[n], now)

UpsertItemsCountLen(item_dicts, n) == n
UpsertItemsCount(item_dicts, n) ==
    Cardinality({k \in 1..n : ~SkipsItem(item_dicts[k])})

\* upsert_items(item_dicts) on table tbl at time now; failAt as in
\* upsert_users.
upsert_items(tbl, item_dicts, failAt, now) ==
    IF item_dicts = <<>>
    THEN [rows |-> tbl, ret |-> 0, raised |-> FALSE]
    ELSE LET n == IF failAt = 0 THEN Len(item_dicts) ELSE failAt - 1
             work == UpsertItemsLoop(tbl, item_dicts, n, now)
         IN  [rows |-> Session(tbl, work, failAt # 0),
              ret |-> IF failAt = 0 THEN UpsertItemsCount(item_dicts, n) ELSE 0,
              raised |-> failAt # 0]

\* The rows the bulk UPDATE of archive_missing_items matches.
MissingItemsAnyLibrary(tbl, library_id, active_jellyfin_ids) ==
    {k \in 1..Len(tbl) : /\ tbl[k].jellyfin_id \notin active_jellyfin_ids
                         /\ ~tbl[k].archived}
MissingItemsArchivedToo(tbl, library_id, active_jellyfin_ids) ==
    {k \in 1..Len(tbl) : /\ tbl[k].library_id = library_id
                         /\ tbl[k].jellyfin_id \notin active_jellyfin_ids}
MissingItems(tbl, library_id, active_jellyfin_ids) ==
    {k \in 1..Len(tbl) : /\ tbl[k].library_id = library_id
                         /\ tbl[k].jellyfin_id \notin active_jellyfin_ids
                         /\ ~tbl[k].archived}

\* archive_missing_items(library_id, active_jellyfin_ids) on table tbl.
archive_missing_items(tbl, library_id, active_jellyfin_ids) ==
    IF active_jellyfin_ids = {}
    THEN [rows |-> tbl, ret |-> 0, raised |-> FALSE]
    ELSE LET hit == MissingItems(tbl, library_id, active_jellyfin_ids)
         IN  [rows |-> [k \in 1..Len(tbl) |->
                           IF k \in hit THEN [tbl[k] EXCEPT !.archived = TRUE]
                           ELSE tbl[k]],
              ret |-> Cardinality(hit), raised |-> FALSE]

\* ---------------------------------------------------------------- playback
\* The input dictionaries of insert_playback_events for user u and item i:
\* one with the two ids only, one with every key, and one with no key at all.
EventKeys == {"user_id", "item_id", "device_name", "client",
              "remote_endpoint", "activity_at", "duration_s",
              "username_denorm"}
EventDict(K, u, i) ==
    [k \in K |-> CASE k = "user_id" -> u
                   [] k = "item_id" -> i
                   [] k = "device_name" -> "TV"
                   [] k = "client" -> "Web"
                   [] k = "remote_endpoint" -> "10.0.0.2"
                   [] k = "activity_at" -> 1
                   [] k = "duration_s" -> 60
                   [] k = "username_denorm" -> "Alice"]
\* Events of either user on one item, and events of one user on either item
\* or on an item that no local row has.
UserEventDicts ==
    {EventDict({"user_id", "item_id"}, u, "I1") : u \in UserIds}
    \cup {EventDict({}, "", ""), EventDict(EventKeys, "U1", "I1")}
ItemEventDicts ==
    {EventDict({"user_id", "item_id"}, "U1", i) : i \in ActiveItemIds}
UserEventBatches == SeqsUpTo(UserEventDicts, MaxBatch)
ItemEventBatches == SeqsUpTo(ItemEventDicts, MaxBatch)

\* PlaybackActivity(...) for one dictionary; id is the next autoincrement
\* value.
PlaybackActivity(id, data, now) ==
    [id |-> id,
     user_id |-> GetOr(data, "user_id", ""),
     item_id |-> GetOr(data, "item_id", ""),
     device_name |-> Get(data, "device_name"),
     client |-> Get(data, "client"),
     remote_endpoint |-> Get(data, "remote_endpoint"),
     activity_at |-> GetOr(data, "activity_at", now),
     duration_s |-> GetOr(data, "duration_s", 0),
     username_denorm |-> Get(data, "username_denorm")]

\* The loop of insert_playback_events over the first n dictionaries.
RECURSIVE InsertEventsDedup(_, _, _, _)
InsertEventsDedup(tbl, event_dicts, n, now) ==
    IF n = 0 THEN tbl
    ELSE LET t == InsertEventsDedup(tbl, event_dicts, n - 1, now)
             e == PlaybackActivity(Len(t) + 1, event_dicts[n], now)
         IN  IF \E k \in 1..Len(t) : [t[k] EXCEPT !.id = 0] =
                                     [e EXCEPT !.id = 0]
             THEN t ELSE Append(t, e)
RECURSIVE InsertEventsLoop(_, _, _, _)
InsertEventsLoop(tbl, event_dicts, n, now) ==
    IF n = 0 THEN tbl
    ELSE LET t == InsertEventsLoop(tbl, event_dicts, n - 1, now)
         IN  Append(t, PlaybackActivity(Len(t) + 1, event_dicts[n], now))

\* insert_playback_events(event_dicts) on table tbl; failAt as in
\* upsert_users.
insert_playback_events(tbl, event_dicts, failAt, now) ==
    IF event_dicts = <<>>
    THEN [rows |-> tbl, ret |-> 0, raised |-> FALSE]
    ELSE LET n == IF failAt = 0 THEN Len(event_dicts) ELSE failAt - 1
             work == InsertEventsLoop(tbl, event_dicts, n, now)
         IN  [rows |-> Session(tbl, work, failAt # 0),
              ret |-> IF failAt = 0 THEN n ELSE 0,
              raised |-> failAt # 0]

\* ---------------------------------------------------------------- stats
\* query(PlaybackActivity).filter(PlaybackActivity.<field> == id).count()
CountEvents(events, field, id) ==
    Cardinality({e \in 1..Len(events) : events[e][field] = id})

\* StatsAggregator.refresh_user_play_counts on the session's users and
\* events.
RefreshUsersActiveOnly(tbl, events) ==
    [rows |-> [k \in 1..Len(tbl) |->
                  IF tbl[k].archived THEN tbl[k]
                  ELSE [tbl[k] EXCEPT !.total_plays =
                           CountEvents(events, "user_id", tbl[k].jellyfin_id)]],
     ret |-> Len(tbl), raised |-> FALSE]
refresh_user_play_counts(tbl, events) ==
    [rows |-> [k \in 1..Len(tbl) |->
                  [tbl[k] EXCEPT !.total_plays =
                      CountEvents(events, "user_id", tbl[k].jellyfin_id)]],
     ret |-> Len(tbl), raised |-> FALSE]

\* StatsAggregator.refresh_item_play_counts
refresh_item_play_counts(tbl, events) ==
    [rows |-> [k \in 1..Len(tbl) |->
                  [tbl[k] EXCEPT !.play_count =
                      CountEvents(events, "item_id", tbl[k].jellyfin_id)]],
     ret |-> Len(tbl), raised |-> FALSE]

\* query(PlaybackActivity).join(Item, item_id == Item.jellyfin_id)
\*     .filter(Item.library_id == lib_id).count(): the joined row pairs.
CountLibraryEventsByExternalId(events, itemTbl, lib_id) ==
    Cardinality({p \in (1..Len(events)) \X (1..Len(itemTbl)) :
                    events[p[1]].item_id = itemTbl[p[2]].jellyfin_id})
CountLibraryEvents(events, itemTbl, lib_id) ==
    Cardinality({p \in (1..Len(events)) \X (1..Len(itemTbl)) :
                    /\ events[p[1]].item_id = itemTbl[p[2]].jellyfin_id
                    /\ itemTbl[p[2]].library_id = lib_id})

\* StatsAggregator.refresh_library_play_counts
refresh_library_play_counts(tbl, itemTbl, events) ==
    [rows |-> [k \in 1..Len(tbl) |->
                  [tbl[k] EXCEPT !.total_plays =
                      CountLibraryEvents(events, itemTbl, tbl[k].id)]],
     ret |-> Len(tbl), raised |-> FALSE]

\* StatsAggregator.refresh_all_stats on one session: the three refreshes in
\* the order of the dictionary it builds, each on what the one before left,
\* and the three numbers it returns.
RefreshAllSkipsItems(userTbl, itemTbl, libTbl, events) ==
    [users |-> refresh_user_play_counts(userTbl, events).rows,
     items |-> itemTbl,
     libraries |-> refresh_library_play_counts(libTbl, itemTbl, events).rows,
     ret |-> <<Len(userTbl), Len(itemTbl), Len(libTbl)>>]
refresh_all_stats(userTbl, itemTbl, libTbl, events) ==
    LET u == refresh_user_play_counts(userTbl, events)
        i == refresh_item_play_counts(itemTbl, events)
        l == refresh_library_play_counts(libTbl, i.rows, events)
    IN  [users |-> u.rows, items |-> i.rows, libraries |-> l.rows,
         ret |-> <<u.ret, i.ret, l.ret>>]

\* ---------------------------------------------------------------- concurrency
\* Two callers of the repository, each in a session of its own: the
\* background worker and a request handler.  A session reads the committed
\* table until its first write; its first write takes the database's write
\* lock, which it holds until it commits or rolls back.  A modified object is
\* pending until the next query (autoflush) or the commit flushes it.
Workers == {"worker", "request"}
Other(w) == CHOOSE v \in Workers : v # w

\* What txn keeps of a unit of work: the call and its arguments, the time the
\* call read, the number of dictionaries done, the pending object, whether
\* the session holds the write lock, its own view of the table once it
\* writes, how the call ended, and whether its last UPDATE met a row that
\* another session had changed since this one read it.
NoTxn == [op |-> "none", batch |-> <<>>, arg |-> <<>>, at |-> 0, pos |-> 0,
          pending |-> <<>>, writing |-> FALSE, work |-> <<>>,
          result |-> "idle", ret |-> 0, raced |-> FALSE]

\* The input lists of the concurrent upserts: the worker reconciles one or
\* two libraries with all their keys, the request handler one library by
\* its external id alone.
RaceLibraryBatches(w) ==
    IF w = "worker"
    THEN SeqsUpTo({LibraryDict(LibraryExtras \cup {"jellyfin_id"}, i) :
                      i \in LibraryExtIds}, MaxBatch) \ {<<>>}
    ELSE {<<LibraryDict({"jellyfin_id"}, i)>> : i \in LibraryExtIds}
\* The flags the request handler sets.
RaceTracked == {"True", "False"}

\* The columns of the row that the session changed: the UPDATE of a flush
\* sets these and no others.
ChangedCols(old, new) == {c \in DOMAIN old : new[c] # old[c]}
WriteWholeRow(current, new, cols) == new
WriteCols(current, new, cols) ==
    [c \in DOMAIN current |-> IF c \in cols THEN new[c] ELSE current[c]]

\* The unique constraint on jellyfin_id: an INSERT of an external id the
\* table already has fails.
NoUniqueViolation(tbl, jf_id) == FALSE
UniqueViolation(tbl, jf_id) ==
    \E k \in 1..Len(tbl) : tbl[k].jellyfin_id = jf_id

\* The table a session's statements run against.
View(t, committed) == IF t.writing THEN t.work ELSE committed

\* The flush of the pending object of session t: the table it gives, and
\* whether the INSERT failed.
Flush(t, committed) ==
    LET base == View(t, committed)
    IN  IF t.pending = <<>> THEN [rows |-> base, raised |-> FALSE]
        ELSE LET p == t.pending[1]
             IN  IF p.kind = "insert"
                 THEN IF UniqueViolation(base, p.row.jellyfin_id)
                      THEN [rows |-> base, raised |-> TRUE]
                      ELSE [rows |-> Append(base, [p.row EXCEPT
                                                   !.id = Len(base) + 1]),
                            raised |-> FALSE]
                 ELSE [rows |-> [k \in 1..Len(base) |->
                                    IF base[k].id = p.row.id
                                    THEN WriteCols(base[k], p.row, p.cols)
                                    ELSE base[k]],
                       raised |-> FALSE]

\* A loaded row the session modified is pending with the columns that
\* changed; a row whose attributes were set to the values they had is not.
PendingUpdate(old, new) ==
    IF ChangedCols(old, new) = {} THEN <<>>
    ELSE <<[kind |-> "update", row |-> new, cols |-> ChangedCols(old, new)]>>

\* The object one iteration of the loop of upsert_libraries leaves pending:
\* the row it found, modified, or a new row.
PendingUpsert(view, data, now) ==
    LET k == First(view, Get(data, "jellyfin_id"))
        after == UpsertLibrary(view, data, now)
    IN  IF k # 0
        THEN PendingUpdate(view[k], after[k])
        ELSE <<[kind |-> "insert", row |-> after[Len(after)], cols |-> {}]>>

\* The object set_library_tracked leaves pending.
PendingTracked(view, k, tracked) ==
    PendingUpdate(view[k], [view[k] EXCEPT !.tracked = Bool(tracked)])

\* The pending UPDATE of session t meets a row that changed since the
\* session read it.
Raced(t, committed) ==
    /\ t.pending # <<>>
    /\ t.pending[1].kind = "update"
    /\ \E k \in 1..Len(committed) :
           /\ committed[k].id = t.pending[1].row.id
           /\ \E c \in DOMAIN committed[k] \ t.pending[1].cols :
                  committed[k][c] # t.pending[1].row[c]

\* The session may write: no other session holds the write lock.
LockFree(w) == ~txn[Other(w)].writing

\* The end of a unit of work: the session is closed, and what is left is
\* the call and how it ended.  A call that raised has rolled back.
Ended(t, result) == [NoTxn EXCEPT !.op = t.op, !.result = result]

Frame == UNCHANGED <<users, items, clock, last, pass, playback, task_log,
                     sched>>

\* A caller enters upsert_libraries, set_library_tracked or
\* archive_missing_libraries.
BeginCall(w, op, batch, arg) ==
    /\ txn[w].result # "open"
    /\ txn' = [txn EXCEPT ![w] = [NoTxn EXCEPT !.op = op, !.batch = batch,
                                              !.arg = arg, !.at = clock,
                                              !.result = "open"]]
    /\ UNCHANGED libraries
    /\ Frame

\* One iteration of the loop of upsert_libraries: the query flushes the
\* pending object and finds the row or nothing; the row it modifies or
\* creates is pending.
RaceUpsertStep(w) ==
    LET t == txn[w]
        f == Flush(t, libraries)
        wrote == [t EXCEPT !.writing = @ \/ t.pending # <<>>,
                           !.work = IF t.writing \/ t.pending # <<>>
                                    THEN f.rows ELSE <<>>,
                           !.pending = <<>>]
        data == t.batch[t.pos + 1]
    IN  /\ t.result = "open" /\ t.op = "upsert_libraries"
        /\ t.pos < Len(t.batch)
        /\ t.pending # <<>> => LockFree(w)
        /\ txn' = [txn EXCEPT ![w] =
                      IF f.raised THEN Ended(t, "integrity_error")
                      ELSE [wrote EXCEPT
                              !.pos = @ + 1,
                              !.ret = @ + 1,
                              !.pending = PendingUpsert(View(wrote, libraries),
                                                        data, t.at)]]
        /\ UNCHANGED libraries
        /\ Frame

\* set_library_tracked finds its library, or returns None.
RaceTrackedStep(w) ==
    LET t == txn[w]
        k == First(libraries, t.arg[1])
    IN  /\ t.result = "open" /\ t.op = "set_library_tracked" /\ t.pos = 0
        /\ txn' = [txn EXCEPT ![w] =
                      IF k = 0 THEN Ended(t, "committed")
                      ELSE [t EXCEPT !.pos = 1, !.ret = 1,
                                     !.pending = PendingTracked(libraries, k,
                                                                t.arg[2])]]
        /\ UNCHANGED libraries
        /\ Frame

\* The bulk UPDATE of archive_missing_libraries runs as one statement.
RaceArchiveStep(w) ==
    LET t == txn[w]
        r == archive_missing_libraries(libraries, t.arg[1])
    IN  /\ t.result = "open" /\ t.op = "archive_missing_libraries"
        /\ t.pos = 0
        /\ LockFree(w)
        /\ txn' = [txn EXCEPT ![w] = [t EXCEPT !.pos = 1, !.ret = r.ret,
                                               !.writing = TRUE,
                                               !.work = r.rows]]
        /\ UNCHANGED libraries
        /\ Frame

\* The end of the with-block: flush what is pending and commit.
RaceCommit(w) ==
    LET t == txn[w]
        f == Flush(t, libraries)
    IN  /\ t.result = "open"
        /\ t.pos = IF t.op = "upsert_libraries" THEN Len(t.batch) ELSE 1
        /\ t.pending # <<>> => LockFree(w)
        /\ IF f.raised
           THEN /\ txn' = [txn EXCEPT ![w] = Ended(t, "integrity_error")]
                /\ UNCHANGED libraries
           ELSE /\ libraries' = f.rows
                /\ txn' = [txn EXCEPT ![w] =
                              [Ended(t, "committed") EXCEPT
                                  !.raced = Raced(t, View(t, libraries))]]
        /\ Frame

\* A write that finds the database locked by the other session gives up
\* after the busy timeout: the call raises and its session rolls back.
RaceLocked(w) ==
    LET t == txn[w]
    IN  /\ t.result = "open"
        /\ ~LockFree(w)
        /\ \/ t.pending # <<>>
           \/ t.op = "archive_missing_libraries" /\ t.pos = 0
        /\ txn' = [txn EXCEPT ![w] = Ended(t, "locked")]
        /\ UNCHANGED libraries
        /\ Frame

\* ---------------------------------------------------------------- item pass
\* The caller's side of the reconciliation contract for items: one pass goes
\* through the libraries in any order and, for each, upserts the items the
\* upstream server lists in it and then archives that library's missing ones.
\* up[i] is the library that holds item i upstream.
IdlePass == [state |-> "idle", up |-> <<>>, todo |-> {}, cur |-> 0]
Upstreams ==
    {up \in [ItemIds -> LibraryIds] :
         \A l \in LibraryIds : \E i \in ItemIds : up[i] = l}
UpstreamIds(up, l) == {i \in ItemIds : up[i] = l}
\* The rows the caller hands to upsert_items for library l, in some order.
PassBatches(up, l) ==
    {b \in [1..Cardinality(UpstreamIds(up, l)) ->
              {ItemDict({"jellyfin_id", "library_id"}, i, l) :
                   i \in UpstreamIds(up, l)}] :
         BatchIds(b) = UpstreamIds(up, l)}

\* ---------------------------------------------------------------- scheduler
Threads == 1..MaxThreads
InCall == {"check", "sync_full", "sync_incremental"}
InSync == {"sync_full", "sync_incremental"}
InSleep == {"sleep", "nap", "sleeping"}
Alive(t) == pc[t] \notin {"unborn", "dead"}
minutes_back == 30

\* A cycle that has not reached its pending check yet.  checked is what the
\* pending check gave, calls the sync calls the cycle has made, minutes_back
\* the arguments it passed, outcome how the sync call ended.  stop_at is where
\* the thread was when stop() last cleared the flag with no start() since,
\* naps the sleep increments it has begun and syncs the sync calls it has
\* started since then.  slept counts the sleep increments the cycle has
\* completed and stopped tells whether stop() cleared the flag during the
\* cycle; prev and gap are what the loop top found when the cycle began:
\* whether the loop had made an attempt before ("none", or "ran" when the
\* flag stayed set since that attempt, "stopped" otherwise) and the sleep
\* increments completed before this one.
NoCycle == [checked |-> "none", calls |-> <<>>, minutes_back |-> {},
            outcome |-> "none", stop_at |-> "none", naps |-> 0, syncs |-> 0,
            slept |-> 0, stopped |-> FALSE, prev |-> "none", gap |-> 0]

\* What the loop top records of the cycle that ends.
PrevCycle(c) ==
    IF c.checked = "none" THEN "none"
    ELSE IF c.stopped THEN "stopped" ELSE "ran"

\* Where stop() finds a thread.
StopAt(p) ==
    IF p \in InSleep THEN "sleep"
    ELSE IF p \in InSync THEN "sync"
    ELSE IF p \in {"unborn", "dead"} THEN "none"
    ELSE "other"

\* start()
StartIgnoresRunning ==
    /\ caller = "idle"
    /\ thread < MaxThreads
    /\ running' = TRUE
    /\ thread' = thread + 1
    /\ pc' = [pc EXCEPT ![thread + 1] = "top"]
    /\ UNCHANGED <<left, caller, cycle, repo>>
start ==
    /\ caller = "idle"
    /\ IF running
       THEN UNCHANGED <<running, thread, pc, cycle>>
       ELSE /\ thread < MaxThreads
            /\ running' = TRUE
            /\ thread' = thread + 1
            /\ pc' = [pc EXCEPT ![thread + 1] = "top"]
            /\ cycle' = [t \in Threads |->
                            [cycle[t] EXCEPT !.stop_at = "none", !.naps = 0,
                                             !.syncs = 0]]
    /\ UNCHANGED <<left, caller, repo>>

\* stop(), up to the join: clear the flag, then wait for the newest thread.
stop ==
    /\ caller = "idle"
    /\ running' = FALSE
    /\ caller' = IF thread # 0 THEN "joining" ELSE "idle"
    /\ cycle' = IF running
                THEN [t \in Threads |->
                         [cycle[t] EXCEPT !.stop_at = StopAt(pc[t]),
                                          !.naps = 0, !.syncs = 0,
                                          !.stopped = Alive(t)]]
                ELSE cycle
    /\ UNCHANGED <<thread, pc, left, repo>>

\* join(timeout=5) returns: the thread has ended, or five seconds have passed
\* while it is inside a call of the sync service, which may take any time.
JoinDone ==
    /\ caller = "joining"
    /\ pc[thread] = "dead" \/ pc[thread] \in InCall
stop_returns ==
    /\ JoinDone
    /\ caller' = "idle"
    /\ UNCHANGED <<running, thread, pc, left, cycle, repo>>

\* `while self._running`: the body, or the end of the loop.
WhileTrue(flag) == "check"
WhileRunning(flag) == IF flag THEN "check" ELSE "dead"

\* _run_loop: `while self._running`
LoopTop(t) ==
    /\ pc[t] = "top"
    /\ pc' = [pc EXCEPT ![t] = WhileRunning(running)]
    /\ cycle' = [cycle EXCEPT ![t] =
                    IF WhileRunning(running) = "check"
                    THEN [NoCycle EXCEPT !.prev = PrevCycle(cycle[t]),
                                         !.gap = cycle[t].slept]
                    ELSE @]
    /\ UNCHANGED <<running, thread, left, caller, repo>>

\* is_initial_activity_log_sync_needed() returns True or False, or raises.
CheckOutcomes == {"true", "false", "raised"}

\* The branch of the `if`: the call the cycle makes for a check result.
SyncPathIgnoresCheck(needed) == "sync_incremental"
SyncPath(needed) ==
    IF needed = "true" THEN "sync_full" ELSE "sync_incremental"

\* The pending check returns or raises; when it returns, the thread enters
\* the call of its branch, and when it raises, the except clause leads to the
\* sleep.
Check(t) ==
    /\ pc[t] = "check"
    /\ \E needed \in CheckOutcomes :
         IF needed = "raised"
         THEN /\ pc' = [pc EXCEPT ![t] = "sleep"]
              /\ left' = [left EXCEPT ![t] = interval_seconds]
              /\ cycle' = [cycle EXCEPT ![t].checked = needed]
         ELSE /\ pc' = [pc EXCEPT ![t] = SyncPath(needed)]
              /\ cycle' = [cycle EXCEPT
                     ![t].checked = needed,
                     ![t].calls = Append(@, SyncPath(needed)),
                     ![t].minutes_back =
                         IF SyncPath(needed) = "sync_incremental"
                         THEN @ \cup {minutes_back} ELSE @,
                     ![t].syncs = IF cycle[t].stop_at = "none" THEN @
                                  ELSE @ + 1]
              /\ UNCHANGED left
    /\ UNCHANGED <<running, thread, caller, repo>>

\* Where the loop goes when its sync call has returned or raised.
AfterSyncExits(outcome) == IF outcome = "raised" THEN "dead" ELSE "sleep"
AfterSync(outcome) == "sleep"

\* sync_activity_log_full() / sync_activity_log_incremental(30) returns or
\* raises; either way the loop goes on to its sleep.
SyncEnds(t) ==
    /\ pc[t] \in InSync
    /\ \E outcome \in {"returned", "raised"} :
         /\ pc' = [pc EXCEPT ![t] = AfterSync(outcome)]
         /\ cycle' = [cycle EXCEPT ![t].outcome = outcome]
    /\ left' = [left EXCEPT ![t] = interval_seconds]
    /\ UNCHANGED <<running, thread, caller, repo>>

\* What an iteration of the sleep loop does for the flag it reads.
SleepStepIgnoresStop(n, flag) == IF n = 0 THEN "top" ELSE "nap"
SleepStepOneShort(n, flag) == IF n <= 1 \/ ~flag THEN "top" ELSE "nap"
SleepStep(n, flag) == IF n = 0 \/ ~flag THEN "top" ELSE "nap"

\* `for _ in range(self.interval_seconds): if not self._running: break`
SleepLoop(t) ==
    /\ pc[t] = "sleep"
    /\ pc' = [pc EXCEPT ![t] = SleepStep(left[t], running)]
    /\ UNCHANGED <<running, thread, cycle, left, caller, repo>>

\* time.sleep(1) begins: the flag was set when the iteration read it.
BeginSleep(t) ==
    /\ pc[t] = "nap"
    /\ pc' = [pc EXCEPT ![t] = "sleeping"]
    /\ cycle' = [cycle EXCEPT ![t].naps = IF cycle[t].stop_at = "none" THEN @
                                          ELSE @ + 1]
    /\ UNCHANGED <<running, thread, left, caller, repo>>

\* time.sleep(1) returns.
Wake(t) ==
    /\ pc[t] = "sleeping"
    /\ pc' = [pc EXCEPT ![t] = "sleep"]
    /\ left' = [left EXCEPT ![t] = @ - 1]
    /\ cycle' = [cycle EXCEPT ![t].slept = @ + 1]
    /\ UNCHANGED <<running, thread, caller, repo>>

\* ---------------------------------------------------------------- clock
\* time.time() moves on between two calls.
Tick ==
    /\ clock < MaxClock
    /\ clock' = clock + 1
    /\ UNCHANGED <<users, libraries, items, last, pass, playback, task_log,
                   txn, sched>>

\* ---------------------------------------------------------------- specs
Init ==
    /\ users = <<>>
    /\ libraries = <<>>
    /\ items = <<>>
    /\ clock = 1
    /\ last = NoCall
    /\ pass = IdlePass
    /\ playback = <<>>
    /\ task_log = <<>>
    /\ txn = [w \in Workers |-> NoTxn]
    /\ running = FALSE
    /\ thread = 0
    /\ pc = [t \in Threads |-> "unborn"]
    /\ left = [t \in Threads |-> 0]
    /\ caller = "idle"
    /\ cycle = [t \in Threads |-> NoCycle]

UpsertUsersFrom(batches) ==
    \E user_dicts \in batches : \E failAt \in FailPoints(user_dicts) :
        LET r == upsert_users(users, user_dicts, failAt, clock)
        IN  /\ users' = r.rows
            /\ last' = [NoCall EXCEPT !.op = "upsert_users",
                                      !.ids = BatchIds(user_dicts),
                                      !.ret = r.ret, !.raised = r.raised]
            /\ UNCHANGED <<libraries, items, clock, pass, playback, task_log,
                           txn, sched>>
UpsertUsers == UpsertUsersFrom(UserBatches)

ArchiveMissingUsers ==
    \E active \in SUBSET UserIds :
        LET r == archive_missing_users(users, active)
        IN  /\ users' = r.rows
            /\ last' = [NoCall EXCEPT !.op = "archive_missing_users",
                                      !.active = active, !.ret = r.ret]
            /\ UNCHANGED <<libraries, items, clock, pass, playback, task_log,
                           txn, sched>>

UpsertItemsFrom(batches) ==
    /\ pass.state # "running"
    /\ \E item_dicts \in batches : \E failAt \in FailPoints(item_dicts) :
        LET r == upsert_items(items, item_dicts, failAt, clock)
        IN  /\ items' = r.rows
            /\ last' = [NoCall EXCEPT !.op = "upsert_items",
                                      !.ids = BatchIds(item_dicts),
                                      !.ret = r.ret, !.raised = r.raised]
    /\ pass' = IdlePass
    /\ UNCHANGED <<users, libraries, clock, playback, task_log, txn, sched>>
UpsertItems == UpsertItemsFrom(ItemBatches)

ArchiveMissingItems ==
    /\ pass.state # "running"
    /\ \E library_id \in LibraryIds : \E active \in SUBSET ActiveItemIds :
        LET r == archive_missing_items(items, library_id, active)
        IN  /\ items' = r.rows
            /\ last' = [NoCall EXCEPT !.op = "archive_missing_items",
                                      !.library_id = library_id,
                                      !.active = active, !.ret = r.ret]
    /\ pass' = IdlePass
    /\ UNCHANGED <<users, libraries, clock, playback, task_log, txn, sched>>

\* A pass starts with the upsert for its first library.
StartItemPass ==
    /\ pass.state # "running"
    /\ \E up \in Upstreams : \E l \in LibraryIds :
       \E item_dicts \in PassBatches(up, l) :
        LET r == upsert_items(items, item_dicts, 0, clock)
        IN  /\ items' = r.rows
            /\ last' = [NoCall EXCEPT !.op = "upsert_items",
                                      !.ids = BatchIds(item_dicts),
                                      !.ret = r.ret, !.raised = r.raised]
            /\ pass' = [state |-> "running", up |-> up, todo |-> LibraryIds,
                        cur |-> l]
    /\ UNCHANGED <<users, libraries, clock, playback, task_log, txn, sched>>

PassUpsertItems ==
    /\ pass.state = "running" /\ pass.cur = 0
    /\ \E l \in pass.todo : \E item_dicts \in PassBatches(pass.up, l) :
        LET r == upsert_items(items, item_dicts, 0, clock)
        IN  /\ items' = r.rows
            /\ last' = [NoCall EXCEPT !.op = "upsert_items",
                                      !.ids = BatchIds(item_dicts),
                                      !.ret = r.ret, !.raised = r.raised]
            /\ pass' = [pass EXCEPT !.cur = l]
    /\ UNCHANGED <<users, libraries, clock, playback, task_log, txn, sched>>

PassArchiveMissingItems ==
    /\ pass.state = "running" /\ pass.cur # 0
    /\ LET active == UpstreamIds(pass.up, pass.cur)
           r == archive_missing_items(items, pass.cur, active)
       IN  /\ items' = r.rows
           /\ last' = [NoCall EXCEPT !.op = "archive_missing_items",
                                     !.library_id = pass.cur,
                                     !.active = active, !.ret = r.ret]
    /\ pass' = [pass EXCEPT !.cur = 0, !.todo = @ \ {pass.cur},
                            !.state = IF pass.todo = {pass.cur}
                                      THEN "done" ELSE "running"]
    /\ UNCHANGED <<users, libraries, clock, playback, task_log, txn, sched>>

UpsertLibrariesFrom(batches) ==
    \E library_dicts \in batches : \E failAt \in FailPoints(library_dicts) :
        LET r == upsert_libraries(libraries, library_dicts, failAt, clock)
        IN  /\ libraries' = r.rows
            /\ last' = [NoCall EXCEPT !.op = "upsert_libraries",
                                      !.ids = BatchIds(library_dicts),
                                      !.ret = r.ret, !.raised = r.raised]
            /\ UNCHANGED <<users, items, clock, pass, playback, task_log,
                           txn, sched>>
UpsertLibraries == UpsertLibrariesFrom(LibraryBatches)

ArchiveMissingLibraries ==
    \E active \in SUBSET LibraryExtIds :
        LET r == archive_missing_libraries(libraries, active)
        IN  /\ libraries' = r.rows
            /\ last' = [NoCall EXCEPT !.op = "archive_missing_libraries",
                                      !.active = active, !.ret = r.ret]
            /\ UNCHANGED <<users, items, clock, pass, playback, task_log,
                           txn, sched>>

SetLibraryTracked ==
    \E jellyfin_id \in LibraryExtIds : \E tracked \in TrackedInputs :
        LET r == set_library_tracked(libraries, jellyfin_id, tracked)
        IN  /\ libraries' = r.rows
            /\ last' = [NoCall EXCEPT !.op = "set_library_tracked",
                                      !.ids = {jellyfin_id},
                                      !.arg = <<tracked>>, !.ret = r.ret]
            /\ UNCHANGED <<users, items, clock, pass, playback, task_log,
                           txn, sched>>

NextLibraries ==
    UpsertLibraries \/ ArchiveMissingLibraries \/ SetLibraryTracked \/ Tick
SpecLibraries == Init /\ [][NextLibraries]_vars

CreateTaskLog ==
    /\ Len(task_log) < MaxTasks
    /\ \E name \in TaskNames : \E task_type \in TaskTypes :
       \E execution_type \in ExecutionTypes :
        LET r == create_task_log(task_log, name, task_type, execution_type,
                                 clock)
        IN  /\ task_log' = r.rows
            /\ last' = [NoCall EXCEPT !.op = "create_task_log",
                                      !.ret = r.ret]
    /\ UNCHANGED <<users, libraries, items, clock, pass, playback, txn, sched>>

CompleteTaskLog ==
    /\ \E task_id \in TaskIds : \E result \in TaskResults :
       \E log_data \in LogDatas :
        LET r == complete_task_log(task_log, task_id, result, log_data, clock)
        IN  /\ task_log' = r.rows
            /\ last' = [NoCall EXCEPT !.op = "complete_task_log",
                                      !.ids = {task_id},
                                      !.arg = <<result, log_data>>,
                                      !.ret = r.ret]
    /\ UNCHANGED <<users, libraries, items, clock, pass, playback, txn, sched>>

NextTasks == CreateTaskLog \/ CompleteTaskLog \/ Tick
SpecTasks == Init /\ [][NextTasks]_vars

UpsertBareLibraries == UpsertLibrariesFrom(BareLibraryBatches)
NextLookups ==
    \/ UpsertBareLibraries \/ SetLibraryTracked
    \/ CreateTaskLog \/ CompleteTaskLog
SpecLookups == Init /\ [][NextLookups]_vars

InsertPlaybackEventsFrom(batches) ==
    \E event_dicts \in batches : \E failAt \in FailPoints(event_dicts) :
        /\ Len(playback) + Len(event_dicts) <= MaxEvents
        /\ LET r == insert_playback_events(playback, event_dicts, failAt,
                                           clock)
           IN  /\ playback' = r.rows
               /\ last' = [NoCall EXCEPT !.op = "insert_playback_events",
                                         !.arg = event_dicts,
                                         !.ret = r.ret, !.raised = r.raised]
        /\ UNCHANGED <<users, libraries, items, clock, pass, task_log, txn, sched>>

\* The refresh operations run in a session of the caller, who commits it.
RefreshUserPlayCounts ==
    LET r == refresh_user_play_counts(users, playback)
    IN  /\ users' = r.rows
        /\ last' = [NoCall EXCEPT !.op = "refresh_user_play_counts",
                                  !.ret = r.ret]
        /\ UNCHANGED <<libraries, items, clock, pass, playback, task_log,
                       txn, sched>>

RefreshItemPlayCounts ==
    LET r == refresh_item_play_counts(items, playback)
    IN  /\ items' = r.rows
        /\ last' = [NoCall EXCEPT !.op = "refresh_item_play_counts",
                                  !.ret = r.ret]
        /\ UNCHANGED <<users, libraries, clock, pass, playback, task_log,
                       txn, sched>>

RefreshLibraryPlayCounts ==
    LET r == refresh_library_play_counts(libraries, items, playback)
    IN  /\ libraries' = r.rows
        /\ last' = [NoCall EXCEPT !.op = "refresh_library_play_counts",
                                  !.ret = r.ret]
        /\ UNCHANGED <<users, items, clock, pass, playback, task_log, txn, sched>>

UpsertBareUsers == UpsertUsersFrom(BareUserBatches)
InsertUserEvents == InsertPlaybackEventsFrom(UserEventBatches)
NextUserStats ==
    \/ UpsertBareUsers \/ ArchiveMissingUsers
    \/ InsertUserEvents \/ RefreshUserPlayCounts
SpecUserStats == Init /\ [][NextUserStats]_vars

UpsertBareItems == UpsertItemsFrom(BareItemBatches)
InsertItemEvents == InsertPlaybackEventsFrom(ItemEventBatches)
NextItemStats ==
    \/ UpsertBareItems \/ UpsertBareLibraries \/ InsertItemEvents
    \/ RefreshItemPlayCounts \/ RefreshLibraryPlayCounts
SpecItemStats == Init /\ [][NextItemStats]_vars

\* The caller of refresh_all_stats opens the session and commits it.  The
\* call's dictionary is kept as <<users_updated, items_updated,
\* libraries_updated>>.
RefreshAllStats ==
    LET r == refresh_all_stats(users, items, libraries, playback)
    IN  /\ users' = r.users
        /\ items' = r.items
        /\ libraries' = r.libraries
        /\ last' = [NoCall EXCEPT !.op = "refresh_all_stats", !.arg = r.ret]
        /\ UNCHANGED <<clock, pass, playback, task_log, txn, sched>>

\* The catalog the counters are refreshed on: one user, all libraries in one
\* list, the items one by one in either library; an event of the user on
\* one item and an event on another item that names no user.
AllStatsUserBatches == {<<UserDict({"jellyfin_id"}, "U1", "", TRUE)>>}
AllStatsLibraryBatches ==
    {[k \in 1..NumLibs |->
         LibraryDict({"jellyfin_id"}, "L" \o ToString(k))]}
AllStatsEventBatches ==
    {<<EventDict({"user_id", "item_id"}, "U1", "I1")>>,
     <<EventDict({"item_id"}, "", "I2")>>}
UpsertOneUser == UpsertUsersFrom(AllStatsUserBatches)
UpsertAllLibraries == UpsertLibrariesFrom(AllStatsLibraryBatches)
InsertAnyEvents == InsertPlaybackEventsFrom(AllStatsEventBatches)
NextAllStats ==
    \/ UpsertOneUser \/ UpsertBareItems \/ UpsertAllLibraries
    \/ InsertAnyEvents \/ RefreshAllStats
SpecAllStats == Init /\ [][NextAllStats]_vars

\* Two callers upsert libraries at the same time.
BeginUpsertLibraries(w, batches) ==
    \E batch \in batches : BeginCall(w, "upsert_libraries", batch, <<>>)
NextRace ==
    \E w \in Workers :
        \/ BeginUpsertLibraries(w, RaceLibraryBatches(w))
        \/ RaceUpsertStep(w)
        \/ RaceCommit(w)
        \/ RaceLocked(w)
SpecRace == Init /\ [][NextRace]_vars

\* The background worker reconciles the libraries while a request handler
\* sets the tracked flag.
\* The worker's lists here: one library, with or without the optional keys.
ReconcileBatches ==
    {b \in RaceLibraryBatches("worker") \cup RaceLibraryBatches("request") :
        Len(b) = 1}
BeginArchiveMissingLibraries ==
    \E active \in (SUBSET LibraryExtIds) \ {{}} :
        BeginCall("worker", "archive_missing_libraries", <<>>, <<active>>)
BeginSetLibraryTracked ==
    \E jellyfin_id \in LibraryExtIds : \E tracked \in RaceTracked :
        BeginCall("request", "set_library_tracked", <<>>,
                  <<jellyfin_id, tracked>>)
NextTracked ==
    \/ BeginUpsertLibraries("worker", ReconcileBatches)
    \/ BeginArchiveMissingLibraries
    \/ BeginSetLibraryTracked
    \/ RaceUpsertStep("worker")
    \/ RaceArchiveStep("worker")
    \/ RaceTrackedStep("request")
    \/ \E w \in Workers : RaceCommit(w) \/ RaceLocked(w)
    \/ Tick
SpecTracked == Init /\ [][NextTracked]_vars

NextItems ==
    \/ UpsertItems \/ ArchiveMissingItems
    \/ StartItemPass \/ PassUpsertItems \/ PassArchiveMissingItems
    \/ Tick
SpecItems == Init /\ [][NextItems]_vars

NextSched ==
    \/ start \/ stop \/ stop_returns
    \/ \E t \in Threads :
           \/ LoopTop(t) \/ Check(t) \/ SyncEnds(t)
           \/ SleepLoop(t) \/ BeginSleep(t) \/ Wake(t)
SpecSched == Init /\ [][NextSched]_vars

\* Every thread that can take a step of the loop takes one: calls of the
\* sync service end and time.sleep returns.
LoopStep(t) ==
    \/ LoopTop(t) \/ Check(t) \/ SyncEnds(t)
    \/ SleepLoop(t) \/ BeginSleep(t) \/ Wake(t)
SpecSchedFair == SpecSched /\ \A t \in Threads : WF_vars(LoopStep(t))

NextUsers == UpsertUsers \/ ArchiveMissingUsers \/ Tick
SpecUsers == Init /\ [][NextUsers]_vars

\* The whole program: every operation of the repository and the scheduler.
Next ==
    \/ NextUsers \/ NextLibraries \/ NextItems \/ NextTasks \/ NextLookups
    \/ NextUserStats \/ NextItemStats \/ NextAllStats
    \/ NextRace \/ NextTracked \/ NextSched
Spec == Init /\ [][Next]_vars

\* ---------------------------------------------------------------- claims
\* A step that is a repository call (time does not pass during a call).
IsCall == clock' = clock

\* C1: when upsert_users has been called with the observed rows and the next
\* call is archive_missing_users with the non-empty set of exactly those
\* external ids, then afterwards a user row is non-archived if and only if
\* its external id is in that set.
C1_UpsertThenArchiveUsers ==
    [][(/\ last.op = "upsert_users" /\ ~last.raised /\ last.ids # {}
        /\ last'.op = "archive_missing_users" /\ last'.active = last.ids)
       => \A k \in 1..Len(users') :
              ~users'[k].archived <=> users'[k].jellyfin_id \in last'.active]_vars
C1_Witness ==
    /\ last.op = "archive_missing_users" /\ last.active # {} /\ last.ret >= 1
    /\ \E k \in 1..Len(users) :
           ~users[k].archived /\ users[k].jellyfin_id \in last.active
    /\ \E k \in 1..Len(users) :
           users[k].archived /\ users[k].jellyfin_id \notin last.active

\* C4: when upsert_users is called a second time with the same set of valid
\* external ids as the call before it, the second call adds no row, every id
\* of the set has exactly one row, no created_at changes, and the rows of the
\* set get updated_at = the time of the second call.
C4_UpsertTwice ==
    [][(/\ IsCall
        /\ last.op = "upsert_users" /\ ~last.raised
        /\ last'.op = "upsert_users" /\ ~last'.raised
        /\ last'.ids = last.ids)
       => /\ Len(users') = Len(users)
          /\ \A i \in ValidIds(last'.ids) :
                 Cardinality({k \in 1..Len(users') :
                                  users'[k].jellyfin_id = i}) = 1
          /\ \A k \in 1..Len(users) :
                 /\ users'[k].created_at = users[k].created_at
                 /\ users[k].jellyfin_id \in last'.ids
                        => users'[k].updated_at = clock']_vars
C4_Witness ==
    /\ last.op = "upsert_users" /\ ~last.raised /\ last.ret = 2
    /\ Len(users) = 1
    /\ users[1].jellyfin_id \in last.ids
    /\ users[1].created_at < users[1].updated_at
    /\ users[1].updated_at = clock

\* C5: after a successful upsert_users every valid external id of the batch
\* has a row, and every row with such an id has archived = FALSE.
C5_UpsertActivates ==
    (last.op = "upsert_users" /\ ~last.raised)
    => \A i \in ValidIds(last.ids) :
           /\ \E k \in 1..Len(users) : users[k].jellyfin_id = i
           /\ \A k \in 1..Len(users) :
                  users[k].jellyfin_id = i => ~users[k].archived
C5_Witness ==
    /\ last.op = "upsert_users" /\ ~last.raised
    /\ \E k \in 1..Len(users) :
           /\ users[k].jellyfin_id \in last.ids
           /\ ~users[k].archived
           /\ users[k].created_at < users[k].updated_at
    /\ \E k \in 1..Len(users) : users[k].archived

\* C7: archive_missing_users with an empty active-id set returns 0 and
\* changes no row.
C7_EmptyActiveSetNoOp ==
    [][(IsCall /\ last'.op = "archive_missing_users" /\ last'.active = {})
       => (users' = users /\ last'.ret = 0)]_vars
C7_Witness ==
    /\ last.op = "archive_missing_users" /\ last.active = {} /\ last.ret = 0
    /\ Len(users) = NumIds
    /\ \A k \in 1..Len(users) : ~users[k].archived

\* C9: an upsert_users call that raises leaves the table as it was.
C9_RaiseRollsBack ==
    [][(IsCall /\ last'.op = "upsert_users" /\ last'.raised)
       => users' = users]_vars
C9_Witness ==
    /\ last.op = "upsert_users" /\ last.raised
    /\ \E i \in ValidIds(last.ids) :
           \A k \in 1..Len(users) : users[k].jellyfin_id # i

\* C10: upserting one dictionary over an existing user sets name (is_admin)
\* to the dictionary's value when the key is present and leaves it as it was
\* when the key is absent.
C10_PartialUpdate ==
    \A d \in UserDicts : \A k \in 1..Len(users) :
        Get(d, "jellyfin_id") = users[k].jellyfin_id
        => LET after == upsert_users(users, <<d>>, 0, clock).rows[k]
           IN  /\ "name" \in DOMAIN d => after.name = d["name"]
               /\ "name" \notin DOMAIN d => after.name = users[k].name
               /\ "is_admin" \in DOMAIN d => after.is_admin = d["is_admin"]
               /\ "is_admin" \notin DOMAIN d => after.is_admin = users[k].is_admin
C10_Witness ==
    /\ last.op = "upsert_users" /\ ~last.raised
    /\ \E k \in 1..Len(users) :
           /\ users[k].jellyfin_id \in last.ids
           /\ users[k].created_at < users[k].updated_at
           /\ users[k].updated_at = clock
           /\ users[k].name = "Unknown"
           /\ users[k].is_admin

\* C2: when an item pass is done, every item the upstream server lists has a
\* local row with archived = FALSE.
C2_PassKeepsUpstreamItems ==
    pass.state = "done"
    => \A i \in ItemIds :
           \E k \in 1..Len(items) :
               items[k].jellyfin_id = i /\ ~items[k].archived

\* C6: archive_missing_items with a non-empty active-id set flips to archived
\* exactly the non-archived rows of the given library whose external id is
\* not in the set, returns their number and changes nothing else; called
\* again at once with the same arguments it returns 0.
C6_ArchiveExactly ==
    [][(IsCall /\ last'.op = "archive_missing_items" /\ last'.active # {})
       => LET flipped == {k \in 1..Len(items) :
                             /\ items[k].library_id = last'.library_id
                             /\ ~items[k].archived
                             /\ items[k].jellyfin_id \notin last'.active}
          IN  /\ Len(items') = Len(items)
              /\ \A k \in flipped :
                     items'[k] = [items[k] EXCEPT !.archived = TRUE]
              /\ \A k \in (1..Len(items)) \ flipped : items'[k] = items[k]
              /\ last'.ret = Cardinality(flipped)
              /\ (/\ last.op = "archive_missing_items"
                  /\ last.library_id = last'.library_id
                  /\ last.active = last'.active) => last'.ret = 0]_vars
C6_Witness ==
    /\ last.op = "archive_missing_items" /\ last.active # {} /\ last.ret = 1
    /\ Len(items) = 2
    /\ items[1].library_id = items[2].library_id
    /\ items[1].archived /\ items[1].jellyfin_id \notin last.active
    /\ ~items[2].archived /\ items[2].jellyfin_id \in last.active

\* C8: archive_missing_items(library_id = A, S) changes no item whose
\* library_id is not A.
C8_OtherLibrariesUntouched ==
    [][(IsCall /\ last'.op = "archive_missing_items")
       => \A k \in 1..Len(items) :
              items[k].library_id # last'.library_id => items'[k] = items[k]]_vars
C8_Witness ==
    /\ last.op = "archive_missing_items" /\ last.active # {} /\ last.ret = 1
    /\ \E k \in 1..Len(items) :
           /\ items[k].library_id # last.library_id
           /\ items[k].jellyfin_id \notin last.active
           /\ ~items[k].archived

\* C3: at most one background loop is alive and at most one sync call is in
\* progress at any time.
C3_SingleLoopSingleSync ==
    /\ Cardinality({t \in Threads : Alive(t)}) <= 1
    /\ Cardinality({t \in Threads :
                        pc[t] \in {"sync_full", "sync_incremental"}}) <= 1

\* C12: a Library's tracked flag is changed by set_library_tracked only:
\* every other call leaves the flag of every row it found as it was, an
\* upsert_libraries of an existing library (archived before or not) and
\* archive_missing_libraries included, and every row a call inserts has
\* tracked = FALSE.
C12_TrackedOnlyBySetter ==
    [][last'.op # "set_library_tracked" =>
         /\ Len(libraries') >= Len(libraries)
         /\ \A k \in 1..Len(libraries') :
              libraries'[k].tracked =
                  IF k <= Len(libraries) THEN libraries[k].tracked
                  ELSE FALSE]_vars
\* upsert_libraries has updated a library that is tracked, and another
\* tracked library is archived.
C12_Witness ==
    /\ last.op = "upsert_libraries" /\ ~last.raised
    /\ \E k \in 1..Len(libraries) :
         /\ libraries[k].tracked /\ ~libraries[k].archived
         /\ libraries[k].jellyfin_id \in last.ids
         /\ libraries[k].updated_at > libraries[k].created_at
    /\ \E k \in 1..Len(libraries) :
         libraries[k].tracked /\ libraries[k].archived

\* C13: once complete_task_log has closed a TaskLog row, no later call
\* changes the row's result, finished_at or duration_ms, and the row never
\* shows RUNNING again: every row goes from RUNNING to a terminal result
\* exactly once.
C13_ClosedOnce ==
    [][\A k \in 1..Len(task_log) :
          task_log[k].result # "RUNNING" =>
              /\ task_log'[k].result = task_log[k].result
              /\ task_log'[k].finished_at = task_log[k].finished_at
              /\ task_log'[k].duration_ms = task_log[k].duration_ms]_vars

\* What create_task_log and complete_task_log do to the table in one step,
\* where Supplied(log_data) says that the call stores its detail.
C14_Step(Supplied(_)) ==
    /\ last'.op = "create_task_log" /\ Len(task_log') # Len(task_log) =>
          /\ task_log' = Append(task_log, task_log'[Len(task_log')])
          /\ LET row == task_log'[Len(task_log')]
             IN  /\ row.id = last'.ret
                 /\ \A k \in 1..Len(task_log) : task_log[k].id # row.id
                 /\ row.result = "RUNNING" /\ row.finished_at = {}
                 /\ row.started_at = clock
    /\ last'.op = "complete_task_log" /\ IsCall =>
          /\ Len(task_log') = Len(task_log)
          /\ \A k \in 1..Len(task_log) :
               IF task_log[k].id \notin last'.ids
               THEN task_log'[k] = task_log[k]
               ELSE /\ task_log'[k].finished_at = {clock}
                    /\ task_log'[k].result = last'.arg[1]
                    /\ task_log'[k].duration_ms =
                           (clock - task_log[k].started_at) * 1000
                    /\ task_log'[k].duration_ms >= 0
                    /\ task_log'[k].log_json =
                           IF Supplied(last'.arg[2])
                           THEN JsonDumps(CHOOSE d \in last'.arg[2] : TRUE)
                           ELSE task_log[k].log_json
                    /\ \A f \in {"id", "name", "type", "execution_type",
                                  "started_at"} :
                           task_log'[k][f] = task_log[k][f]
C14_AnyDict(log_data) == log_data # {}
C14_NonEmptyDict(log_data) == \E d \in log_data : DOMAIN d # {}

\* C14 as stated: create_task_log returns the fresh id of a new RUNNING row
\* with finished_at unset; complete_task_log sets finished_at, result and
\* duration_ms = (finished_at - started_at) * 1000 >= 0 on the row with the
\* id, stores the serialized log_data in log_json whenever a dictionary is
\* passed, and changes no other row.
C14_StoresSuppliedDetail == [][C14_Step(C14_AnyDict)]_vars
\* C14 amended: the same, but log_json is written only for a dictionary that
\* is not empty; with None or {} the row keeps the log_json it had.
C14_StoresNonEmptyDetail == [][C14_Step(C14_NonEmptyDict)]_vars
\* A row closed a second after it started, with its detail stored, next to a
\* row that is still RUNNING.
C14_Witness ==
    /\ last.op = "complete_task_log"
    /\ \E k \in 1..Len(task_log) :
         /\ task_log[k].id \in last.ids
         /\ task_log[k].duration_ms = 1000
         /\ task_log[k].log_json = JsonDumps([j \in {"events"} |-> 2])
    /\ \E k \in 1..Len(task_log) : task_log[k].result = "RUNNING"

\* C15: complete_task_log with an id no row has changes no TaskLog row;
\* set_library_tracked with an external id no library has returns None and
\* changes no Library row.
C15_UnknownIdNoOp ==
    [][/\ last'.op = "complete_task_log"
          /\ (\A k \in 1..Len(task_log) : task_log[k].id \notin last'.ids)
          => task_log' = task_log
       /\ last'.op = "set_library_tracked"
          /\ (\A k \in 1..Len(libraries) :
                 libraries[k].jellyfin_id \notin last'.ids)
          => last'.ret = {} /\ libraries' = libraries]_vars
\* set_library_tracked has returned None while a tracked library and an open
\* task exist, and complete_task_log can still be given an unknown id.
C15_Witness ==
    /\ last.op = "set_library_tracked" /\ last.ret = {}
    /\ \E k \in 1..Len(libraries) : libraries[k].tracked
    /\ \E k \in 1..Len(task_log) : task_log[k].result = "RUNNING"

\* C11: no repository or aggregator operation removes a User row: over every
\* step the rows that existed are still there, in place, with the local id
\* and the external id they had, so the set of external ids only grows.
C11_RowsNeverRemoved ==
    [][/\ Len(users') >= Len(users)
       /\ \A k \in 1..Len(users) :
            /\ users'[k].id = users[k].id
            /\ users'[k].jellyfin_id = users[k].jellyfin_id]_vars
\* archive_missing_users has archived a row, and both users are still local.
C11_Witness ==
    /\ last.op = "archive_missing_users" /\ last.ret >= 1
    /\ {users[k].jellyfin_id : k \in 1..Len(users)} = UserIds
    /\ \E k \in 1..Len(users) : users[k].archived /\ users[k].total_plays >= 1

\* C16: a call of insert_playback_events that does not raise appends one row
\* per input dictionary, in order and without deduplication, and returns the
\* number of dictionaries; no step of any operation changes or removes a row
\* that playback_activity already has.
C16_EventsAppendOnly ==
    [][/\ Len(playback') >= Len(playback)
       /\ \A k \in 1..Len(playback) : playback'[k] = playback[k]
       /\ last'.op = "insert_playback_events" /\ ~last'.raised =>
             /\ last'.ret = Len(last'.arg)
             /\ Len(playback') = Len(playback) + Len(last'.arg)
             /\ \A j \in 1..Len(last'.arg) :
                  LET row == playback'[Len(playback) + j]
                      data == last'.arg[j]
                  IN  /\ row.user_id = GetOr(data, "user_id", "")
                      /\ row.item_id = GetOr(data, "item_id", "")
                      /\ \A i \in 1..(Len(playback) + j - 1) :
                           playback'[i].id # row.id]_vars
\* The same event was inserted twice, by one call, and is there twice.
C16_Witness ==
    /\ last.op = "insert_playback_events" /\ last.ret = 2
    /\ last.arg[1] = last.arg[2]
    /\ Len(playback) = MaxEvents
    /\ playback[MaxEvents].user_id = playback[MaxEvents - 1].user_id
    /\ playback[MaxEvents].user_id \in UserIds

\* C17: a refresh_user_play_counts sets the total_plays of every User,
\* archived or not and whatever it was, to the number of PlaybackActivity
\* rows with the user's external id, changes nothing else, and returns the
\* number of User rows; a second refresh right after it changes nothing.
C17_RefreshCounts ==
    [][last'.op = "refresh_user_play_counts" =>
         /\ Len(users') = Len(users)
         /\ last'.ret = Len(users)
         /\ \A k \in 1..Len(users) :
              users'[k] =
                [users[k] EXCEPT !.total_plays =
                    Cardinality({e \in 1..Len(playback) :
                        playback[e].user_id = users[k].jellyfin_id})]
         /\ last.op = "refresh_user_play_counts" => users' = users]_vars
\* After a refresh, an archived user has two plays, a user has none, and an
\* event names no user at all.
C17_Witness ==
    /\ last.op = "refresh_user_play_counts" /\ last.ret = 2
    /\ \E k \in 1..Len(users) : users[k].archived /\ users[k].total_plays = 2
    /\ \E k \in 1..Len(users) : users[k].total_plays = 0
    /\ \E e \in 1..Len(playback) : playback[e].user_id = ""

\* C19: every call other than the aggregator's refresh leaves the total_plays
\* of every User row that existed as it was: upsert_users (of an archived
\* user too), archive_missing_users and insert_playback_events.
C19_CountersOnlyByRefresh ==
    [][last'.op # "refresh_user_play_counts" =>
         /\ Len(users') >= Len(users)
         /\ \A k \in 1..Len(users) :
              users'[k].total_plays = users[k].total_plays]_vars
\* upsert_users has updated a user that has plays, while another user with a
\* play is archived and a later event is not counted yet.
C19_Witness ==
    /\ last.op = "upsert_users" /\ ~last.raised
    /\ \E k \in 1..Len(users) :
         /\ users[k].jellyfin_id \in last.ids
         /\ users[k].total_plays = 1
         /\ Cardinality({e \in 1..Len(playback) :
                playback[e].user_id = users[k].jellyfin_id}) = 2
    /\ \E k \in 1..Len(users) : users[k].archived /\ users[k].total_plays = 1

\* C18: a refresh_library_play_counts sets the total_plays of every Library
\* to the number of PlaybackActivity rows whose item id is the external id of
\* a local Item with library_id = the library's local id, changes nothing
\* else and returns the number of Library rows; an event whose item id no
\* local item has counts for no library.
C18_LibraryCounts ==
    [][last'.op = "refresh_library_play_counts" =>
         /\ Len(libraries') = Len(libraries)
         /\ last'.ret = Len(libraries)
         /\ \A k \in 1..Len(libraries) :
              libraries'[k] =
                [libraries[k] EXCEPT !.total_plays =
                    Cardinality({e \in 1..Len(playback) :
                        \E i \in 1..Len(items) :
                            /\ items[i].jellyfin_id = playback[e].item_id
                            /\ items[i].library_id = libraries[k].id})]]_vars
\* After a refresh one library has two plays and the other has none, while a
\* third event names an item that no local row has.
C18_Witness ==
    /\ last.op = "refresh_library_play_counts" /\ last.ret = 2
    /\ \E k \in 1..Len(libraries) : libraries[k].total_plays = 2
    /\ \E k \in 1..Len(libraries) : libraries[k].total_plays = 0
    /\ \E e \in 1..Len(playback) :
         \A i \in 1..Len(items) : items[i].jellyfin_id # playback[e].item_id
    /\ Len(items) = 2

\* What a cycle has done once the pending check gave `checked`: the calls it
\* has made and the minutes_back values it has passed, where Otherwise is the
\* set of check outcomes that lead to the incremental path.
C20_Cycle(Otherwise) ==
    \A t \in Threads :
        /\ cycle[t].checked = "none" =>
               cycle[t].calls = <<>> /\ pc[t] \notin {"sync_full",
                                                      "sync_incremental"}
        /\ cycle[t].checked = "true" =>
               /\ cycle[t].calls = <<"sync_full">>
               /\ cycle[t].minutes_back = {}
               /\ pc[t] # "sync_incremental"
        /\ cycle[t].checked \in Otherwise =>
               /\ cycle[t].calls = <<"sync_incremental">>
               /\ cycle[t].minutes_back = {minutes_back}
               /\ pc[t] # "sync_full"
        /\ cycle[t].checked \in CheckOutcomes \ ({"true"} \cup Otherwise) =>
               /\ cycle[t].calls = <<>>
               /\ pc[t] \notin {"sync_full", "sync_incremental"}

\* C20 as stated: every cycle invokes exactly one sync path, the full one if
\* the pending check returned true and otherwise the incremental one with
\* minutes_back = 30; never both, never the incremental one after a true
\* check.
C20_OnePathEveryCycle == C20_Cycle({"false", "raised"})
\* C20 amended: a cycle whose pending check returns invokes exactly one sync
\* path, the full one after true and the incremental one with minutes_back =
\* 30 after false; a cycle whose pending check raises invokes none.
C20_OnePathPerReturnedCheck == C20_Cycle({"false"})
\* One thread is inside the full sync after a true check while the other
\* sleeps after the incremental sync that followed a false check.
C20_Witness ==
    \E t1, t2 \in Threads :
        /\ pc[t1] = "sync_full" /\ cycle[t1].checked = "true"
        /\ pc[t2] = "sleeping" /\ cycle[t2].checked = "false"
        /\ cycle[t2].calls = <<"sync_incremental">>

\* Thread t gets an exception in this step: from the pending check or from
\* its sync call.
C21_Raises(t) ==
    \/ cycle'[t].checked = "raised" /\ cycle[t].checked # "raised"
    \/ cycle'[t].outcome = "raised" /\ cycle[t].outcome # "raised"
C21_Failed(t) ==
    cycle[t].checked = "raised" \/ cycle[t].outcome = "raised"

\* C21: an exception from the pending check or from a sync call leaves the
\* scheduler as it is and takes the loop to its interval sleep; a loop ends
\* only at the loop top with the flag cleared; and after a failing cycle the
\* loop reaches the next cycle's pending check unless the flag is cleared.
C21_ExceptionKeepsLoop ==
    /\ [][\A t \in Threads :
            /\ C21_Raises(t) =>
                 /\ pc'[t] = "sleep" /\ left'[t] = interval_seconds
                 /\ UNCHANGED <<running, thread, caller>>
                 /\ \A u \in Threads \ {t} : pc'[u] = pc[u]
            /\ pc'[t] = "dead" /\ pc[t] # "dead" =>
                 pc[t] = "top" /\ ~running]_vars
    /\ \A t \in Threads :
         (C21_Failed(t) /\ pc[t] = "sleep") ~> (pc[t] = "check" \/ ~running)
\* Both loops are in the sleep of a failed cycle, one after a raising check
\* and one after a raising sync call, and the scheduler is Running.
C21_Witness ==
    /\ running
    /\ \E t1, t2 \in Threads :
         /\ pc[t1] = "sleeping" /\ cycle[t1].checked = "raised"
         /\ pc[t2] = "sleeping" /\ cycle[t2].outcome = "raised"

\* C22: a loop that was in its inter-cycle sleep when stop() cleared the
\* flag, with no start() since, has begun at most one further one-second
\* sleep and has started no sync call: it is still in the sleep, at the loop
\* top or has ended.
C22_StopEndsSleep ==
    \A t \in Threads :
        cycle[t].stop_at = "sleep" =>
            /\ cycle[t].naps <= 1
            /\ cycle[t].syncs = 0
            /\ pc[t] \in InSleep \cup {"top", "dead"}
\* A loop has ended with sleep increments left, after the one increment it
\* began when the flag was already cleared.
C22_Witness ==
    \E t \in Threads :
        /\ cycle[t].stop_at = "sleep" /\ cycle[t].naps = 1
        /\ pc[t] = "dead" /\ left[t] >= 1

\* C23: no step from a Running scheduler creates a loop, and only a stop()
\* ends Running; a stop() or its return on a Stopped scheduler changes
\* nothing of the scheduler but the caller's position, and on a scheduler
\* that never started it returns at once; when stop() returns the scheduler
\* is Stopped; and stop() can return while the newest loop is inside a call
\* of the sync service.
C23_StartStopIdempotent ==
    /\ [][/\ running =>
               /\ thread' = thread
               /\ \A t \in Threads : pc[t] = "unborn" => pc'[t] = "unborn"
          /\ running /\ ~running' => caller = "idle" /\ caller' = "joining"
          /\ ~running /\ caller' # caller =>
               ~running' /\ UNCHANGED <<thread, pc, left>>
          /\ thread = 0 /\ ~running => caller' = "idle"
          /\ caller = "joining" /\ caller' = "idle" => ~running']_vars
    /\ [](caller = "joining" /\ pc[thread] \in InCall => ENABLED stop_returns)
\* stop() has returned while the newest loop is still inside its sync call.
C23_Witness ==
    /\ ~running /\ caller = "idle" /\ thread # 0
    /\ pc[thread] \in InSync

\* C24: a loop that was inside a sync call when stop() cleared the flag,
\* with no start() since, is still inside that call or has seen it return or
\* raise, and then begins no sleep and starts no other sync call: it is at
\* the sleep loop's flag test, at the loop top or has ended.
C24_StopAfterSync ==
    \A t \in Threads :
        cycle[t].stop_at = "sync" =>
            /\ cycle[t].naps = 0
            /\ cycle[t].syncs = 0
            /\ Len(cycle[t].calls) = 1
            /\ pc[t] \in InSync \cup {"sleep", "top", "dead"}
            /\ pc[t] \notin InSync => cycle[t].outcome # "none"
\* A loop has ended after the sync call that was in flight at the stop
\* raised.
C24_Witness ==
    \E t \in Threads :
        /\ cycle[t].stop_at = "sync" /\ pc[t] = "dead"
        /\ cycle[t].outcome = "raised" /\ left[t] = interval_seconds

\* C27: when two callers upsert libraries at the same time and both carry an
\* external id the table does not have, the table never holds two rows with
\* that id: a call that commits leaves exactly one row for each id of its
\* list, and a call that fails leaves the table as it was.
RowsOf(tbl, jf_id) == {k \in 1..Len(tbl) : tbl[k].jellyfin_id = jf_id}
C27_OneRowPerExternalId ==
    /\ [](\A jf_id \in LibraryExtIds :
              Cardinality(RowsOf(libraries, jf_id)) <= 1)
    /\ [][\A w \in Workers :
            /\ (txn[w].result = "open" /\ txn'[w].result = "committed")
                => \A i \in 1..Len(txn[w].batch) :
                      Cardinality(RowsOf(libraries',
                                         txn[w].batch[i]["jellyfin_id"])) = 1
            /\ (/\ txn[w].result = "open"
                /\ txn'[w].result \in {"integrity_error", "locked"})
                => libraries' = libraries]_vars
\* One caller's INSERT failed on the row the other caller committed first.
C27_Witness ==
    \E w \in Workers :
        /\ txn[w].result = "integrity_error"
        /\ txn[Other(w)].result = "committed"
        /\ libraries # <<>>

\* C28: a set_library_tracked(id, v) that runs while the worker upserts or
\* archives the same library is not lost, and loses nothing.  When it
\* commits, the library's tracked flag is v and every other column of every
\* row is as committed before; when the worker's call commits, every row
\* keeps its tracked flag and the call's own changes are in the table: an
\* upserted library is active, has the call's time as updated_at and the
\* name the call gave, and a library missing from the active list is
\* archived.
C28_RowOf(tbl, jf_id) == tbl[First(tbl, jf_id)]
C28_Commits(w) == txn[w].result = "open" /\ txn'[w].result = "committed"
C28_TrackedNotLost ==
    [][/\ (C28_Commits("request") /\ txn["request"].pos = 1)
           => /\ Len(libraries') = Len(libraries)
              /\ C28_RowOf(libraries', txn["request"].arg[1]).tracked
                     = Bool(txn["request"].arg[2])
              /\ \A k \in 1..Len(libraries) :
                     [libraries'[k] EXCEPT !.tracked = libraries[k].tracked]
                        = libraries[k]
       /\ C28_Commits("worker")
           => /\ \A k \in 1..Len(libraries) :
                     libraries'[k].tracked = libraries[k].tracked
              /\ \A i \in 1..Len(txn["worker"].batch) :
                     LET data == txn["worker"].batch[i]
                         row == C28_RowOf(libraries', data["jellyfin_id"])
                     IN  /\ ~row.archived
                         /\ row.updated_at = txn["worker"].at
                         /\ "name" \in DOMAIN data => row.name = data["name"]
              /\ txn["worker"].op = "archive_missing_libraries"
                     => \A k \in 1..Len(libraries') :
                           libraries'[k].jellyfin_id \notin txn["worker"].arg[1]
                              => libraries'[k].archived]_vars
\* The flag was set on a row the worker had renamed, archived or touched
\* after set_library_tracked read it, and both calls committed.
C28_Witness ==
    /\ txn["request"].result = "committed"
    /\ txn["request"].op = "set_library_tracked"
    /\ txn["request"].raced
    /\ txn["worker"].result = "committed"
    /\ \E k \in 1..Len(libraries) :
           /\ libraries[k].tracked
           /\ libraries[k].name = "Movies"
           /\ libraries[k].updated_at > libraries[k].created_at

\* C25: created_at of a row never changes after its insert, and updated_at
\* is the time of the latest upsert that touched the row: an upsert that
\* commits sets it to the call's time for every row named in its list,
\* archived or not, and for the rows it inserts together with created_at; no
\* other step changes it, so it never decreases.
C25_Touched(k) ==
    /\ IsCall
    /\ last'.op = "upsert_users" /\ ~last'.raised
    /\ users[k].jellyfin_id \in last'.ids
C25_Timestamps ==
    [][/\ Len(users') >= Len(users)
       /\ \A k \in 1..Len(users) :
              /\ users'[k].created_at = users[k].created_at
              /\ users'[k].updated_at >= users[k].updated_at
              /\ users'[k].updated_at =
                     IF C25_Touched(k) THEN clock ELSE users[k].updated_at
       /\ \A k \in (Len(users) + 1)..Len(users') :
              /\ users'[k].created_at = clock
              /\ users'[k].updated_at = clock]_vars
\* An upsert touched an older row, which an archive pass had archived, and
\* left a row it did not name alone.
C25_Witness ==
    /\ last.op = "upsert_users" /\ ~last.raised
    /\ \E k \in 1..Len(users) :
           /\ users[k].jellyfin_id \in last.ids
           /\ users[k].created_at < users[k].updated_at
           /\ users[k].updated_at = clock
    /\ \E k \in 1..Len(users) :
           /\ users[k].jellyfin_id \notin last.ids
           /\ users[k].archived
           /\ users[k].updated_at < clock

\* C26: upsert_items skips every dictionary that lacks the external id or
\* the library reference and does not raise: on every table and for every
\* input list of dictionaries with all optional keys, the count it returns
\* is the number of dictionaries that have both, and the table it leaves is
\* the one the same call leaves for the list without the skipped
\* dictionaries.
C26_Valid(data) ==
    /\ "jellyfin_id" \in DOMAIN data
    /\ data["jellyfin_id"] # ""
    /\ "library_id" \in DOMAIN data
C26_ValidRows(item_dicts) == SelectSeq(item_dicts, C26_Valid)
C26_Dicts == {data \in ItemDicts : ItemExtras \subseteq DOMAIN data}
C26_SkipsInvalidRows ==
    \A item_dicts \in SeqsUpTo(C26_Dicts, MaxBatch) :
        LET r == upsert_items(items, item_dicts, 0, clock)
        IN  /\ ~r.raised
            /\ r.ret = Len(C26_ValidRows(item_dicts))
            /\ r.rows = upsert_items(items, C26_ValidRows(item_dicts), 0,
                                     clock).rows
\* A call whose only dictionary lacks the library reference returned 0 and
\* left the rows it found.
C26_Witness ==
    /\ last.op = "upsert_items" /\ ~last.raised
    /\ last.ids = {"I1"}
    /\ last.ret = 0
    /\ \E k \in 1..Len(items) : items[k].jellyfin_id = "I1"

\* C30: upsert_items never changes the library_id of an existing item: on
\* every table, for every dictionary and whatever library_id it carries,
\* every row the table had keeps its id, external id, library_id, play_count
\* and created_at; only name, type, parent_id, archived and updated_at may
\* differ.
C30_Frame(old, new) ==
    [new EXCEPT !.name = old.name, !.type = old.type,
                !.parent_id = old.parent_id, !.archived = old.archived,
                !.updated_at = old.updated_at] = old
C30_KeepsLibraryId ==
    \A data \in ItemDicts :
        LET r == upsert_items(items, <<data>>, 0, clock)
        IN  /\ Len(r.rows) >= Len(items)
            /\ \A k \in 1..Len(items) :
                   /\ r.rows[k].library_id = items[k].library_id
                   /\ C30_Frame(items[k], r.rows[k])
\* A pass has just upserted, with library_id 2, an item that was inserted
\* under library 1, and the item is still in library 1.
C30_Witness ==
    /\ pass.state = "running" /\ pass.cur = 2
    /\ last.op = "upsert_items" /\ ~last.raised
    /\ \E k \in 1..Len(items) :
           /\ items[k].jellyfin_id \in last.ids
           /\ items[k].library_id = 1

\* C29: right after refresh_all_stats the three counters agree: every
\* library's total_plays is the sum of play_count over the items whose
\* library_id is that library's id, the users' total_plays add up to at most
\* the number of playback events and so do the items' play_count, and the
\* call returned the numbers of user, item and library rows.
RECURSIVE C29_Sum(_, _)
C29_Sum(f, S) ==
    IF S = {} THEN 0
    ELSE LET x == CHOOSE y \in S : TRUE
         IN  f[x] + C29_Sum(f, S \ {x})
C29_ItemPlays == [j \in 1..Len(items) |-> items[j].play_count]
C29_UserPlays == [j \in 1..Len(users) |-> users[j].total_plays]
C29_ItemsOf(lib_id) == {j \in 1..Len(items) : items[j].library_id = lib_id}
C29_CountersAgree ==
    last.op = "refresh_all_stats" =>
        /\ \A k \in 1..Len(libraries) :
               libraries[k].total_plays =
                   C29_Sum(C29_ItemPlays, C29_ItemsOf(libraries[k].id))
        /\ C29_Sum(C29_UserPlays, 1..Len(users)) <= Len(playback)
        /\ C29_Sum(C29_ItemPlays, 1..Len(items)) <= Len(playback)
        /\ last.arg = <<Len(users), Len(items), Len(libraries)>>
\* A refresh found two played items in one library and an event that names
\* no user.
C29_Witness ==
    /\ last.op = "refresh_all_stats"
    /\ \E k \in 1..Len(libraries) :
           /\ libraries[k].total_plays >= 2
           /\ Cardinality({j \in C29_ItemsOf(libraries[k].id) :
                               items[j].play_count > 0}) = 2
    /\ C29_Sum(C29_UserPlays, 1..Len(users)) > 0
    /\ C29_Sum(C29_UserPlays, 1..Len(users)) < Len(playback)

\* C31: while the scheduler stays Running, a loop makes its first sync
\* attempt with no sleep before it, and between two consecutive attempts of
\* a loop there are exactly interval_seconds one-second sleep increments: a
\* cycle that is the loop's first began after no completed increment, and a
\* cycle that follows an attempt with the flag set all the time since began
\* after interval_seconds of them.
C31_Cadence ==
    \A t \in Threads :
        /\ cycle[t].prev = "none" => cycle[t].gap = 0
        /\ cycle[t].prev = "ran" => cycle[t].gap = interval_seconds
        /\ (pc[t] = "top" /\ cycle[t].checked = "none") => cycle[t].slept = 0
\* The only loop there has been is in the pending check of a cycle that
\* follows an attempt and the whole interval sleep, with the scheduler
\* Running all the time.
C31_Witness ==
    /\ running /\ thread = 1
    /\ pc[1] = "check" /\ cycle[1].prev = "ran"
    /\ cycle[1].gap = interval_seconds

\* C32: when the calls of the sync service end and time.sleep returns, a
\* scheduler that is stopped and not started again has no loop alive in the
\* end, and a scheduler that stays Running makes sync attempts again and
\* again: some loop is in its pending check infinitely often.
C32_AllEnded == \A t \in Threads : ~Alive(t)
C32_Attempting == \E t \in Threads : pc[t] = "check"
====
